---- MODULE Spec2Model ----
(***************************************************************************)
(* Model of kaorou-checker (src/lqa_tool.py):                              *)
(*   - align_subtitles, the time-axis aligner of two subtitle tracks;      *)
(*   - LQAWorker.run, the batched review worker.                           *)
(* Times are integer milliseconds (pysubs2 start/end).  Pool and row       *)
(* positions are 1-based here (TLA+ sequences); the Python index of        *)
(* position k is k - 1.                                                    *)
(***************************************************************************)
EXTENDS Integers, Sequences, FiniteSets, TLC

VARIABLES
    source_data,          \* align_subtitles: the master track (first argument)
    target_data,          \* align_subtitles: the pool track (second argument)
    aligned,              \* align_subtitles: the list of pairs built so far
    used_target_indices,  \* align_subtitles: pool positions already consumed
    s_pos,                \* align_subtitles: number of master segments processed
    candidates,           \* align_subtitles: per processed master, its sorted candidate positions
    align_pc,             \* "idle" | "loop" | "done"
    source_lines,         \* LQAWorker: the source rows (row indices 0..n-1 stand for the texts)
    target_lines,         \* LQAWorker: the target rows
    i,                    \* LQAWorker.run: start index of the current batch
    batch_s,              \* LQAWorker.run: source slice of the current batch
    batch_t,              \* LQAWorker.run: target slice of the current batch
    response,             \* LQAWorker.run: what generate_content returned for the current batch
    interruption,         \* QThread: requestInterruption() was called
    progress,             \* progress_update emissions so far: <<current, total>>
    calls,                \* generate_content calls so far
    emitted,              \* batch_finished emissions so far
    errors,               \* error_occurred emissions so far
    logged,               \* logging.error records of failed batches so far
    w_pc,                 \* "idle" | "start" | "loop" | "send" | "wait" | "parse" | "next" | "done"
    \* LQAModernWindowV3 (the control path)
    table,                \* rows of self.table: columns 1, 2 and the review of columns 3-5
    full_results,         \* self.full_results: row id -> result item
    btn_action_enabled,   \* self.btn_action.isEnabled()
    table_enabled,        \* self.table.isEnabled()
    lbl_status,           \* what self.lbl_status shows
    progress_bar,         \* <<value, maximum>> of self.progress
    run_no,               \* number of runs started by run_process
    handled_progress,     \* progress_update signals of self.worker handled so far
    handled_batches,      \* batch_finished signals of self.worker handled so far
    finished_handled,     \* the finished signal of self.worker was handled
    source_path,          \* self.source_path ("" for None)
    target_path,          \* self.target_path ("" for None)
    combo_mode,           \* self.combo_mode.currentIndex()
    orphans,              \* workers replaced in self.worker while still running
    clicks,               \* file loads, mode changes and row operations so far
    \* srt_to_txt.main
    files,                \* args.files, each by what convert_file finds at the path
    pair,                 \* args.pair
    counts,               \* the list counts
    report,               \* what the pair check has printed
    srt_pc                \* "idle" | "convert" | "check" | "exit"

align_vars == <<source_data, target_data, aligned, used_target_indices,
                s_pos, candidates, align_pc>>

worker_vars == <<source_lines, target_lines, i, batch_s, batch_t, response,
                 interruption, progress, calls, emitted, errors, logged, w_pc>>

ui_vars == <<table, full_results, btn_action_enabled, table_enabled, lbl_status,
            progress_bar, run_no, handled_progress, handled_batches,
            finished_handled>>

session_vars == <<source_path, target_path, combo_mode, orphans, clicks>>

srt_vars == <<files, pair, counts, report, srt_pc>>

vars == <<source_data, target_data, aligned, used_target_indices,
          s_pos, candidates, align_pc,
          source_lines, target_lines, i, batch_s, batch_t, response,
          interruption, progress, calls, emitted, errors, logged, w_pc,
          table, full_results, btn_action_enabled, table_enabled, lbl_status,
          progress_bar, run_no, handled_progress, handled_batches,
          finished_handled, source_path, target_path, combo_mode, orphans,
          clicks, files, pair, counts, report, srt_pc>>

(***************************************************************************)
(* Bounds of the model.                                                    *)
(***************************************************************************)
\* align_subtitles: longest master and pool track.
MaxMaster == 2
MaxPool == 2
\* LQAWorker: most rows, largest difference of the two line counts, and
\* most items the service returns beyond the size of the batch.
MaxRows == 25
MaxSkew == 1
MaxExtra == 1
MaxTableRows == 11
MaxRuns == 2
MaxFiles == 3
MaxBlocks == 2
MaxEditRows == 4
MaxClicks == 3

(***************************************************************************)
(* Inputs of align_subtitles.                                              *)
(***************************************************************************)
\* Times of the general input family (ms).
Times == {0, 100, 200, 300}

\* Times of the input family around a master segment spanning 0..1000.
WideTimes == {0, 100, 500, 600, 900, 1000, 1050, 1100, 1500}

\* align_subtitles copies the texts and never reads them: every segment
\* gets a text that tells its position.
MasterTexts == <<"A", "B", "C", "D">>
PoolTexts == <<"x", "y", "z", "w">>

\* Start and end of a segment; zero-length segments included.
Intervals(times) == {p \in times \X times : p[1] <= p[2]}

SeqsUpTo(S, n) == UNION {[1..k -> S] : k \in 0..n}

\* A track as parse_subtitle_file builds it.
Track(ivs, texts) ==
    [k \in 1..Len(ivs) |->
        [start |-> ivs[k][1], end |-> ivs[k][2],
         text |-> texts[((k - 1) % Len(texts)) + 1]]]

Min(a, b) == IF a <= b THEN a ELSE b
Max(a, b) == IF a >= b THEN a ELSE b

(***************************************************************************)
(* align_subtitles                                                         *)
(***************************************************************************)
MIN_OVERLAP_MS == 200

overlap_duration(s, t) == Min(s.end, t.end) - Max(s.start, t.start)

t_duration(t) == IF t.end - t.start <= 0 THEN 1 ELSE t.end - t.start

\* First disjunct of is_valid_match.
OverlapRule(s, t) == overlap_duration(s, t) >= MIN_OVERLAP_MS

RatioRule_AtLeastHalf(s, t) == 2 * overlap_duration(s, t) >= t_duration(t)

\* Second disjunct of is_valid_match: overlap_duration / t_duration > 0.5.
\* Python's true division of two integers is correctly rounded and
\* t_duration >= 1, so for millisecond times the comparison with 0.5 is
\* exactly 2 * overlap_duration > t_duration.
RatioRule(s, t) == 2 * overlap_duration(s, t) > t_duration(t)

is_valid_match_OverlapOnly(s, t) == OverlapRule(s, t)

is_valid_match(s, t) == OverlapRule(s, t) \/ RatioRule(s, t)

RECURSIVE ScanPool_StopsAtFirstMiss(_, _, _, _)
ScanPool_StopsAtFirstMiss(s, pool, used, t_idx) ==
    IF t_idx > Len(pool) THEN <<>>
    ELSE IF t_idx \in used THEN ScanPool_StopsAtFirstMiss(s, pool, used, t_idx + 1)
    ELSE IF is_valid_match(s, pool[t_idx])
         THEN <<(<<t_idx, pool[t_idx].text>>)>>
                  \o ScanPool_StopsAtFirstMiss(s, pool, used, t_idx + 1)
         ELSE <<>>

RECURSIVE ScanPool_IgnoreUsed(_, _, _, _)
ScanPool_IgnoreUsed(s, pool, used, t_idx) ==
    IF t_idx > Len(pool) THEN <<>>
    ELSE IF is_valid_match(s, pool[t_idx])
         THEN <<(<<t_idx, pool[t_idx].text>>)>> \o ScanPool_IgnoreUsed(s, pool, used, t_idx + 1)
         ELSE ScanPool_IgnoreUsed(s, pool, used, t_idx + 1)

\* The inner loop: scan the pool from position t_idx on, skipping consumed
\* positions, collecting (position, text) of every valid match.
RECURSIVE ScanPool(_, _, _, _)
ScanPool(s, pool, used, t_idx) ==
    IF t_idx > Len(pool) THEN <<>>
    ELSE IF t_idx \in used THEN ScanPool(s, pool, used, t_idx + 1)
    ELSE IF is_valid_match(s, pool[t_idx])
         THEN <<(<<t_idx, pool[t_idx].text>>)>> \o ScanPool(s, pool, used, t_idx + 1)
         ELSE ScanPool(s, pool, used, t_idx + 1)

SortCandidates_Descending(c) == SortSeq(c, LAMBDA a, b : a[1] > b[1])

\* candidates.sort(key=lambda x: x[0])
SortCandidates(c) == SortSeq(c, LAMBDA a, b : a[1] < b[1])

\* "\n".join(texts)
RECURSIVE JoinNewline(_)
JoinNewline(texts) ==
    IF texts = <<>> THEN ""
    ELSE IF Len(texts) = 1 THEN texts[1]
    ELSE texts[1] \o "\n" \o JoinNewline(Tail(texts))

\* The pair appended for master segment s with sorted candidates c.
AlignedPair(s, c) ==
    IF c # <<>>
    THEN <<s.text, JoinNewline([k \in 1..Len(c) |-> c[k][2]])>>
    ELSE <<s.text, "">>

AppendPair_SkipUnmatched(list, s, c) ==
    IF c # <<>> THEN Append(list, AlignedPair(s, c)) ELSE list

\* The list after the body of the outer loop has handled s.
AppendPair(list, s, c) == Append(list, AlignedPair(s, c))

ReturnValue_AppendLeftovers(list, pool, used) ==
    list \o [k \in 1..Cardinality({p \in 1..Len(pool) : p \notin used}) |->
                <<"[no master]", "">>]

\* The value returned once the outer loop is over.
ReturnValue(list, pool, used) == list

\* One iteration of "for s in source_data".
AlignMaster ==
    /\ align_pc = "loop"
    /\ s_pos < Len(source_data)
    /\ LET s == source_data[s_pos + 1]
           c == SortCandidates(ScanPool(s, target_data, used_target_indices, 1))
       IN  /\ aligned' = AppendPair(aligned, s, c)
           /\ used_target_indices' = used_target_indices \cup {c[k][1] : k \in 1..Len(c)}
           /\ candidates' = Append(candidates, [k \in 1..Len(c) |-> c[k][1]])
    /\ s_pos' = s_pos + 1
    /\ UNCHANGED <<source_data, target_data, align_pc>>
    /\ UNCHANGED <<worker_vars, ui_vars, session_vars, srt_vars>>

\* "return aligned".
AlignReturn ==
    /\ align_pc = "loop"
    /\ s_pos = Len(source_data)
    /\ aligned' = ReturnValue(aligned, target_data, used_target_indices)
    /\ align_pc' = "done"
    /\ UNCHANGED <<source_data, target_data, used_target_indices, s_pos, candidates>>
    /\ UNCHANGED <<worker_vars, ui_vars, session_vars, srt_vars>>

AlignStart(master, pool) ==
    /\ source_data = master
    /\ target_data = pool
    /\ aligned = <<>>
    /\ used_target_indices = {}
    /\ s_pos = 0
    /\ candidates = <<>>
    /\ align_pc = "loop"

AlignIdle ==
    /\ source_data = <<>>
    /\ target_data = <<>>
    /\ aligned = <<>>
    /\ used_target_indices = {}
    /\ s_pos = 0
    /\ candidates = <<>>
    /\ align_pc = "idle"

(***************************************************************************)
(* LQAWorker                                                               *)
(***************************************************************************)
batch_size == 10

NoResponse == [kind |-> "none", items |-> <<>>]

Slice_InclusiveEnd(lines, a, b) == SubSeq(lines, a + 1, Min(b + 1, Len(lines)))

\* lines[a:b] of Python, as the sequence of its elements.
Slice(lines, a, b) == SubSeq(lines, a + 1, Min(b, Len(lines)))

\* What the service puts in the "id" field of its items.
IdPatterns == {"absolute", "local", "same", "missing", "nondict"}

\* The k-th of n items the service returns for the batch starting at start:
\* a JSON object with an id of its own choosing or with none (hasid), or
\* (pattern "nondict", last item) a JSON value that is no object.
ServiceItem(pat, k, n, start) ==
    [isdict |-> ~(pat = "nondict" /\ k = n),
     hasid |-> pat \in {"absolute", "local", "same"},
     id |-> CASE pat = "absolute" -> start + (k - 1)
              [] pat = "local" -> k - 1
              [] OTHER -> 0]

\* response.text, by what json.loads makes of it: no JSON at all
\* ("invalid"), an array of items ("list"), an object holding the array
\* under "reviews" ("wrapped"), any other JSON value ("other").
Responses(size, start) ==
    {[kind |-> "invalid", items |-> <<>>], [kind |-> "other", items |-> <<>>]}
    \cup {[kind |-> kd, items |-> [k \in 1..n |-> ServiceItem(pat, k, n, start)]] :
            kd \in {"list", "wrapped"}, n \in 0..(size + MaxExtra), pat \in IdPatterns}

ParsedItems_NoUnwrap(r) ==
    IF r.kind # "list" THEN <<>> ELSE r.items

\* res_json after the isinstance tests.
ParsedItems(r) ==
    IF r.kind = "wrapped" THEN r.items
    ELSE IF r.kind # "list" THEN <<>>
    ELSE r.items

OverwriteIds_KeepServiceId(items, start) ==
    [k \in 1..Len(items) |->
        IF items[k].hasid THEN items[k]
        ELSE [items[k] EXCEPT !.hasid = TRUE, !.id = start + (k - 1)]]

\* "for idx, item in enumerate(res_json): item['id'] = i + idx".
OverwriteIds(items, start) ==
    [k \in 1..Len(items) |->
        [items[k] EXCEPT !.hasid = TRUE, !.id = start + (k - 1)]]

\* The payload of batch_finished.emit(res_json), with the batch it is for.
EmittedBatch(items, start, size) ==
    [start |-> start, size |-> size,
     ids |-> [k \in 1..Len(items) |-> items[k].id]]

total == Len(source_lines)

ProgressSignal_RowsDone(start) == <<start + batch_size, total>>

\* The (current, total) arguments of progress_update.emit.
ProgressSignal(start) == <<start, total>>

\* "client = genai.Client(...)" succeeds and the for loop takes its first index.
WorkerStart ==
    /\ w_pc = "start"
    /\ i' = 0
    /\ w_pc' = "loop"
    /\ UNCHANGED <<source_lines, target_lines, batch_s, batch_t, response,
                   interruption, progress, calls, emitted, errors, logged>>
    /\ UNCHANGED <<align_vars, ui_vars, session_vars, srt_vars>>

\* "client = genai.Client(...)" raises: the outer except emits error_occurred.
WorkerStartFails ==
    /\ w_pc = "start"
    /\ errors' = Append(errors, "client")
    /\ w_pc' = "done"
    /\ UNCHANGED <<source_lines, target_lines, i, batch_s, batch_t, response,
                   interruption, progress, calls, emitted, logged>>
    /\ UNCHANGED <<align_vars, ui_vars, session_vars, srt_vars>>

\* range(0, total, batch_size) is exhausted: run returns.
LoopExit ==
    /\ w_pc = "loop"
    /\ i >= total
    /\ w_pc' = "done"
    /\ UNCHANGED <<source_lines, target_lines, i, batch_s, batch_t, response,
                   interruption, progress, calls, emitted, errors, logged>>
    /\ UNCHANGED <<align_vars, ui_vars, session_vars, srt_vars>>

\* "if self.isInterruptionRequested(): break".
Interrupted ==
    /\ w_pc = "loop"
    /\ i < total
    /\ interruption
    /\ w_pc' = "done"
    /\ UNCHANGED <<source_lines, target_lines, i, batch_s, batch_t, response,
                   interruption, progress, calls, emitted, errors, logged>>
    /\ UNCHANGED <<align_vars, ui_vars, session_vars, srt_vars>>

BatchBegin_IgnoresInterruption ==
    /\ w_pc = "loop"
    /\ i < total
    /\ batch_s' = Slice(source_lines, i, i + batch_size)
    /\ batch_t' = Slice(target_lines, i, i + batch_size)
    /\ progress' = Append(progress, ProgressSignal(i))
    /\ w_pc' = "send"
    /\ UNCHANGED <<source_lines, target_lines, i, response, interruption,
                   calls, emitted, errors, logged>>
    /\ UNCHANGED <<align_vars, ui_vars, session_vars, srt_vars>>

\* The head of an iteration: the two slices, then the progress signal.
BatchBegin ==
    /\ w_pc = "loop"
    /\ i < total
    /\ ~interruption
    /\ batch_s' = Slice(source_lines, i, i + batch_size)
    /\ batch_t' = Slice(target_lines, i, i + batch_size)
    /\ progress' = Append(progress, ProgressSignal(i))
    /\ w_pc' = "send"
    /\ UNCHANGED <<source_lines, target_lines, i, response, interruption,
                   calls, emitted, errors, logged>>
    /\ UNCHANGED <<align_vars, ui_vars, session_vars, srt_vars>>

ReviewSend_DoesNotWait ==
    /\ w_pc = "send"
    /\ calls' = Append(calls, [start_index |-> i, source |-> batch_s, target |-> batch_t])
    /\ w_pc' = "next"
    /\ UNCHANGED <<source_lines, target_lines, i, batch_s, batch_t, response,
                   interruption, progress, emitted, errors, logged>>
    /\ UNCHANGED <<align_vars, ui_vars, session_vars, srt_vars>>

\* client.models.generate_content(...) is called with the batch.
ReviewSend ==
    /\ w_pc = "send"
    /\ calls' = Append(calls, [start_index |-> i, source |-> batch_s, target |-> batch_t])
    /\ w_pc' = "wait"
    /\ UNCHANGED <<source_lines, target_lines, i, batch_s, batch_t, response,
                   interruption, progress, emitted, errors, logged>>
    /\ UNCHANGED <<align_vars, ui_vars, session_vars, srt_vars>>

\* The call returns a response.
ReviewReturns ==
    /\ w_pc = "wait"
    /\ \E r \in Responses(Len(batch_s), i) : response' = r
    /\ w_pc' = "parse"
    /\ UNCHANGED <<source_lines, target_lines, i, batch_s, batch_t,
                   interruption, progress, calls, emitted, errors, logged>>
    /\ UNCHANGED <<align_vars, ui_vars, session_vars, srt_vars>>

ReviewRaises_Retries ==
    /\ w_pc = "wait"
    /\ logged' = Append(logged, [kind |-> "API Error", start |-> i])
    /\ w_pc' = "send"
    /\ UNCHANGED <<source_lines, target_lines, i, batch_s, batch_t, response,
                   interruption, progress, calls, emitted, errors>>
    /\ UNCHANGED <<align_vars, ui_vars, session_vars, srt_vars>>

\* The call raises: "except Exception" logs it and continues.
ReviewRaises ==
    /\ w_pc = "wait"
    /\ logged' = Append(logged, [kind |-> "API Error", start |-> i])
    /\ w_pc' = "next"
    /\ UNCHANGED <<source_lines, target_lines, i, batch_s, batch_t, response,
                   interruption, progress, calls, emitted, errors>>
    /\ UNCHANGED <<align_vars, ui_vars, session_vars, srt_vars>>

HandleResponse_WritesResults ==
    /\ w_pc = "parse"
    /\ LET res_json == ParsedItems(response)
       IN  IF response.kind = "invalid"
           THEN /\ logged' = Append(logged, [kind |-> "JSON Parse Error", start |-> i])
                /\ UNCHANGED <<emitted, full_results>>
           ELSE IF \E k \in 1..Len(res_json) : ~res_json[k].isdict
           THEN /\ logged' = Append(logged, [kind |-> "API Error", start |-> i])
                /\ UNCHANGED <<emitted, full_results>>
           ELSE /\ emitted' = Append(emitted,
                      EmittedBatch(OverwriteIds(res_json, i), i, Len(batch_s)))
                /\ full_results' =
                      [rid \in DOMAIN full_results \cup {i + (k - 1) : k \in 1..Len(res_json)} |->
                          [run |-> run_no, start |-> i, id |-> rid]]
                /\ logged' = logged
    /\ w_pc' = "next"
    /\ UNCHANGED <<source_lines, target_lines, i, batch_s, batch_t, response,
                   interruption, progress, calls, errors>>
    /\ UNCHANGED <<align_vars, table, btn_action_enabled, table_enabled, lbl_status,
                   progress_bar, run_no, handled_progress, handled_batches,
                   finished_handled, session_vars, srt_vars>>

\* json.loads, the shape tests, the id overwrite and the emit.  A
\* JSONDecodeError, or the TypeError of "item['id'] = ..." on an item that
\* is no object, is logged by the batch's except clauses: nothing is emitted.
HandleResponse ==
    /\ w_pc = "parse"
    /\ LET res_json == ParsedItems(response)
       IN  IF response.kind = "invalid"
           THEN /\ logged' = Append(logged, [kind |-> "JSON Parse Error", start |-> i])
                /\ emitted' = emitted
           ELSE IF \E k \in 1..Len(res_json) : ~res_json[k].isdict
           THEN /\ logged' = Append(logged, [kind |-> "API Error", start |-> i])
                /\ emitted' = emitted
           ELSE /\ emitted' = Append(emitted,
                      EmittedBatch(OverwriteIds(res_json, i), i, Len(batch_s)))
                /\ logged' = logged
    /\ w_pc' = "next"
    /\ UNCHANGED <<source_lines, target_lines, i, batch_s, batch_t, response,
                   interruption, progress, calls, errors>>
    /\ UNCHANGED <<align_vars, ui_vars, session_vars, srt_vars>>

\* The for loop takes its next index.  The response of the finished
\* iteration is never read again.
LoopAdvance ==
    /\ w_pc = "next"
    /\ i' = i + batch_size
    /\ response' = NoResponse
    /\ w_pc' = "loop"
    /\ UNCHANGED <<source_lines, target_lines, batch_s, batch_t,
                   interruption, progress, calls, emitted, errors, logged>>
    /\ UNCHANGED <<align_vars, ui_vars, session_vars, srt_vars>>

\* Another thread calls requestInterruption() on the running worker.
RequestInterruption ==
    /\ w_pc \notin {"idle", "done"}
    /\ ~interruption
    /\ interruption' = TRUE
    /\ UNCHANGED <<source_lines, target_lines, i, batch_s, batch_t, response,
                   progress, calls, emitted, errors, w_pc, logged>>
    /\ UNCHANGED <<align_vars, ui_vars, session_vars, srt_vars>>

\* LQAWorker(api_key, source_lines, target_lines) followed by start().
WorkerCreated(ns, nt) ==
    /\ source_lines = [k \in 1..ns |-> k - 1]
    /\ target_lines = [k \in 1..nt |-> k - 1]
    /\ i = 0
    /\ batch_s = <<>>
    /\ batch_t = <<>>
    /\ response = NoResponse
    /\ interruption = FALSE
    /\ progress = <<>>
    /\ calls = <<>>
    /\ emitted = <<>>
    /\ errors = <<>>
    /\ logged = <<>>
    /\ w_pc = "start"

WorkerIdle ==
    /\ source_lines = <<>>
    /\ target_lines = <<>>
    /\ i = 0
    /\ batch_s = <<>>
    /\ batch_t = <<>>
    /\ response = NoResponse
    /\ interruption = FALSE
    /\ progress = <<>>
    /\ calls = <<>>
    /\ emitted = <<>>
    /\ errors = <<>>
    /\ logged = <<>>
    /\ w_pc = "idle"

NoReview == [run |-> 0, start |-> 0, id |-> 0]

EmptyResults == [rid \in {} |-> NoReview]

\* srt_to_txt is not running.
SrtIdle ==
    /\ files = <<>>
    /\ pair = FALSE
    /\ counts = <<>>
    /\ report = "none"
    /\ srt_pc = "idle"

\* The window as __init__ and setup_ui leave it.
WindowCreated ==
    /\ source_path = ""
    /\ target_path = ""
    /\ combo_mode = 0
    /\ orphans = <<>>
    /\ clicks = 0
    /\ table = <<>>
    /\ full_results = EmptyResults
    /\ btn_action_enabled = FALSE
    /\ table_enabled = TRUE
    /\ lbl_status = "load files"
    /\ progress_bar = [visible |-> FALSE, shown |-> <<>>]
    /\ run_no = 0
    /\ handled_progress = 0
    /\ handled_batches = 0
    /\ finished_handled = FALSE

(***************************************************************************)
(* Specifications                                                          *)
(***************************************************************************)
\* Any two tracks of bounded length over Times.
InitGrid ==
    \E m \in SeqsUpTo(Intervals(Times), MaxMaster) :
    \E p \in SeqsUpTo(Intervals(Times), MaxPool) :
        AlignStart(Track(m, MasterTexts), Track(p, PoolTexts))

\* One master segment spanning 0..1000 against any bounded pool over WideTimes.
InitWide ==
    \E p \in SeqsUpTo(Intervals(WideTimes), MaxPool) :
        AlignStart(Track(<<(<<0, 1000>>)>>, MasterTexts), Track(p, PoolTexts))

InitAlign == (InitGrid \/ InitWide) /\ WorkerIdle /\ WindowCreated /\ SrtIdle

NextAlign == AlignMaster \/ AlignReturn

SpecAlign == InitAlign /\ [][NextAlign]_vars

\* align_subtitles over the general input family alone.
InitAlignGrid == InitGrid /\ WorkerIdle /\ WindowCreated /\ SrtIdle

SpecAlignGrid == InitAlignGrid /\ [][NextAlign]_vars

\* A worker over any two line lists of bounded length.
InitWorker ==
    /\ AlignIdle
    /\ WindowCreated
    /\ SrtIdle
    /\ \E ns \in 0..MaxRows :
       \E nt \in {n \in 0..MaxRows : n - ns <= MaxSkew /\ ns - n <= MaxSkew} :
           WorkerCreated(ns, nt)

NextWorker ==
    \/ WorkerStart
    \/ WorkerStartFails
    \/ LoopExit
    \/ Interrupted
    \/ BatchBegin
    \/ ReviewSend
    \/ ReviewReturns
    \/ ReviewRaises
    \/ HandleResponse
    \/ LoopAdvance
    \/ RequestInterruption

SpecWorker == InitWorker /\ [][NextWorker]_vars

\* The steps of the worker thread itself.
LQAWorkerRun ==
    \/ WorkerStart
    \/ WorkerStartFails
    \/ LoopExit
    \/ Interrupted
    \/ BatchBegin
    \/ ReviewSend
    \/ ReviewReturns
    \/ ReviewRaises
    \/ HandleResponse
    \/ LoopAdvance

\* A worker as run_process creates it: both line lists are read from the
\* same table rows.
InitRun ==
    /\ AlignIdle
    /\ WindowCreated
    /\ SrtIdle
    /\ \E n \in 0..MaxRows : WorkerCreated(n, n)

\* The worker thread keeps being scheduled and every review call returns or
\* raises.
SpecWorkerFair == InitRun /\ [][NextWorker]_vars /\ WF_vars(LQAWorkerRun)

(***************************************************************************)
(* LQAModernWindowV3: the control path of a review                         *)
(***************************************************************************)
\* The window after try_time_alignment has rendered n aligned rows.
WindowAligned(n) ==
    /\ source_path = "source.srt"
    /\ target_path = "target.srt"
    /\ combo_mode = 0
    /\ orphans = <<>>
    /\ clicks = 0
    /\ table = [r \in 1..n |->
                   [id |-> r, source |-> r - 1, target |-> r - 1, review |-> NoReview]]
    /\ full_results = EmptyResults
    /\ btn_action_enabled = TRUE
    /\ table_enabled = TRUE
    /\ lbl_status = "aligned"
    /\ progress_bar = [visible |-> FALSE, shown |-> <<>>]
    /\ run_no = 0
    /\ handled_progress = 0
    /\ handled_batches = 0
    /\ finished_handled = FALSE

\* The result item of the current run that a batch delivers for row id rid.
ResultItem(batch, rid) == [run |-> run_no, start |-> batch.start, id |-> rid]

MergedIds_NoRowCheck(batch, rowCount) ==
    {batch.ids[k] : k \in 1..Len(batch.ids)}

\* The row ids of a batch that on_lqa_batch does not skip.
MergedIds(batch, rowCount) ==
    {batch.ids[k] : k \in {j \in 1..Len(batch.ids) : batch.ids[j] < rowCount}}

\* self.worker has not run to the handling of its finished signal.
WorkerLive == w_pc # "idle" /\ ~finished_handled

\* The worker that start_lqa drops from self.worker while it is live: its
\* run() goes on and its signals stay connected.  Kept are its run number,
\* its number of rows, the start index of the next batch it has not yet
\* answered, and its batch results not yet handled.
ReplacedWorker ==
    [run |-> run_no,
     total |-> total,
     next |-> CASE w_pc = "done" -> Max(i, total)
                [] w_pc = "next" -> i + batch_size
                [] OTHER -> i,
     queued |-> SubSeq(emitted, handled_batches + 1, Len(emitted))]

\* The click on btn_action: run_process locks the window, clears
\* full_results and, through start_lqa, creates and starts a worker on the
\* lines of the table.
RunProcess ==
    /\ btn_action_enabled
    /\ Len(table) > 0
    /\ run_no < MaxRuns
    /\ source_lines' = [r \in 1..Len(table) |-> table[r].source]
    /\ target_lines' = [r \in 1..Len(table) |-> table[r].target]
    /\ i' = 0
    /\ batch_s' = <<>>
    /\ batch_t' = <<>>
    /\ response' = NoResponse
    /\ interruption' = FALSE
    /\ progress' = <<>>
    /\ calls' = <<>>
    /\ emitted' = <<>>
    /\ errors' = <<>>
    /\ logged' = <<>>
    /\ w_pc' = "start"
    /\ btn_action_enabled' = FALSE
    /\ table_enabled' = FALSE
    /\ progress_bar' = [progress_bar EXCEPT !.visible = TRUE]
    /\ full_results' = EmptyResults
    /\ run_no' = run_no + 1
    /\ handled_progress' = 0
    /\ handled_batches' = 0
    /\ finished_handled' = FALSE
    /\ orphans' = IF WorkerLive THEN Append(orphans, ReplacedWorker) ELSE orphans
    /\ UNCHANGED <<table, lbl_status, source_path, target_path, combo_mode, clicks>>
    /\ UNCHANGED <<align_vars, srt_vars>>

\* update_progress, run for the oldest unhandled progress_update signal.
\* Signals are handled in the order of their emission: every batch result
\* emitted before this signal has been handled.
UpdateProgress ==
    /\ handled_progress < Len(progress)
    /\ \A o \in 1..Len(orphans) : orphans[o].queued = <<>>
    /\ LET sig == progress[handled_progress + 1]
       IN  /\ \A b \in 1..Len(emitted) :
                 emitted[b].start < sig[1] => b <= handled_batches
           /\ progress_bar' = [progress_bar EXCEPT !.shown = sig]
    /\ lbl_status' = "checking"
    /\ handled_progress' = handled_progress + 1
    /\ UNCHANGED <<table, full_results, btn_action_enabled, table_enabled,
                   run_no, handled_batches, finished_handled>>
    /\ UNCHANGED <<align_vars, worker_vars, session_vars, srt_vars>>

\* on_lqa_batch (the second definition, which replaces the first), run for
\* the oldest unhandled batch_finished signal: every item whose id is below
\* the row count is stored in full_results and written to the row's
\* columns 3-5, a later item of the batch overwriting an earlier one.
OnLqaBatch ==
    /\ handled_batches < Len(emitted)
    /\ \A o \in 1..Len(orphans) : orphans[o].queued = <<>>
    /\ LET batch == emitted[handled_batches + 1]
           rids == MergedIds(batch, Len(table))
       IN  /\ \E p \in 1..handled_progress : progress[p][1] = batch.start
           /\ full_results' =
                 [rid \in DOMAIN full_results \cup rids |->
                     IF rid \in rids THEN ResultItem(batch, rid)
                     ELSE full_results[rid]]
           /\ table' =
                 [r \in 1..Len(table) |->
                     IF (r - 1) \in rids
                     THEN [table[r] EXCEPT !.review = ResultItem(batch, r - 1)]
                     ELSE table[r]]
    /\ handled_batches' = handled_batches + 1
    /\ UNCHANGED <<btn_action_enabled, table_enabled, lbl_status, progress_bar,
                   run_no, handled_progress, finished_handled>>
    /\ UNCHANGED <<align_vars, worker_vars, session_vars, srt_vars>>

\* on_lqa_finished, run for QThread's finished signal, which is emitted
\* when run() has returned and is handled after every signal run() emitted.
\* error_occurred is connected to no slot.
OnLqaFinished ==
    /\ w_pc = "done"
    /\ \A o \in 1..Len(orphans) : orphans[o].queued = <<>>
    /\ ~finished_handled
    /\ handled_progress = Len(progress)
    /\ handled_batches = Len(emitted)
    /\ progress_bar' = [progress_bar EXCEPT !.visible = FALSE]
    /\ btn_action_enabled' = TRUE
    /\ table_enabled' = TRUE
    /\ lbl_status' = "review complete"
    /\ finished_handled' = TRUE
    /\ UNCHANGED <<table, full_results, run_no, handled_progress, handled_batches>>
    /\ UNCHANGED <<align_vars, worker_vars, session_vars, srt_vars>>

InitUI ==
    /\ AlignIdle
    /\ WorkerIdle
    /\ SrtIdle
    /\ \E n \in 1..MaxTableRows : WindowAligned(n)

NextUI ==
    \/ RunProcess
    \/ WorkerStart
    \/ WorkerStartFails
    \/ LoopExit
    \/ BatchBegin
    \/ ReviewSend
    \/ ReviewReturns
    \/ ReviewRaises
    \/ HandleResponse
    \/ LoopAdvance
    \/ UpdateProgress
    \/ OnLqaBatch
    \/ OnLqaFinished

SpecUI == InitUI /\ [][NextUI]_vars

(***************************************************************************)
(* LQAModernWindowV3: files, alignment mode and table operations           *)
(***************************************************************************)
\* The subtitle files the user can pick in the file dialog.
SubtitleFiles == {"a.srt", "b.srt", "c.srt", "bad.srt"}

\* parse_subtitle_file: the segments of the file, [] for a file that
\* pysubs2 cannot load.
parse_subtitle_file(path) ==
    CASE path = "a.srt" ->
            <<[start |-> 0, end |-> 200, text |-> "a1"],
              [start |-> 200, end |-> 300, text |-> "a2"]>>
      [] path = "b.srt" ->
            <<[start |-> 0, end |-> 300, text |-> "b1"]>>
      [] path = "c.srt" ->
            <<[start |-> 0, end |-> 100, text |-> "c1"],
              [start |-> 100, end |-> 200, text |-> "c2"],
              [start |-> 200, end |-> 300, text |-> "c3"]>>
      [] OTHER -> <<>>

\* The outer loop of align_subtitles from master segment k on.
RECURSIVE AlignFrom(_, _, _, _, _)
AlignFrom(master, pool, k, used, list) ==
    IF k > Len(master) THEN ReturnValue(list, pool, used)
    ELSE LET c == SortCandidates(ScanPool(master[k], pool, used, 1))
         IN  AlignFrom(master, pool, k + 1,
                       used \cup {c[j][1] : j \in 1..Len(c)},
                       AppendPair(list, master[k], c))

\* align_subtitles(source_data, target_data) as one call.
align_subtitles(master, pool) == AlignFrom(master, pool, 1, {}, <<>>)

final_display_data_NoSwap(s_data, t_data, mode) ==
    IF mode = 1 THEN align_subtitles(t_data, s_data)
    ELSE align_subtitles(s_data, t_data)

\* final_display_data of try_time_alignment: (source text, target text)
\* pairs, swapped back when the target track was the master.
final_display_data(s_data, t_data, mode) ==
    IF mode = 1
    THEN LET raw_aligned == align_subtitles(t_data, s_data)
         IN  [k \in 1..Len(raw_aligned) |-> <<raw_aligned[k][2], raw_aligned[k][1]>>]
    ELSE align_subtitles(s_data, t_data)

\* A row as try_time_alignment renders it: columns 0-2 set, columns 3-5
\* without items.
RenderedRow(r, s_text, t_text) ==
    [id |-> r, source |-> s_text, target |-> t_text, review |-> NoReview]

\* try_time_alignment, for the paths and mode it finds.
TryTimeAlignment(sp, tp, mode) ==
    IF sp = "" \/ tp = ""
    THEN /\ lbl_status' = "ready state"
         /\ UNCHANGED <<table, btn_action_enabled>>
    ELSE LET s_data == parse_subtitle_file(sp)
             t_data == parse_subtitle_file(tp)
         IN  IF s_data = <<>> \/ t_data = <<>>
             THEN /\ lbl_status' = "aligning"
                  /\ UNCHANGED <<table, btn_action_enabled>>
             ELSE LET data == final_display_data(s_data, t_data, mode)
                  IN  /\ table' = [r \in 1..Len(data) |->
                                      RenderedRow(r, data[r][1], data[r][2])]
                      /\ lbl_status' = "aligned"
                      /\ btn_action_enabled' = TRUE

\* load_file: the user picks a file for the source or the target side.
LoadFile(file_type, path) ==
    /\ clicks < MaxClicks
    /\ clicks' = clicks + 1
    /\ IF file_type = "source"
       THEN source_path' = path /\ target_path' = target_path
       ELSE target_path' = path /\ source_path' = source_path
    /\ TryTimeAlignment(source_path', target_path', combo_mode)
    /\ UNCHANGED <<full_results, table_enabled, progress_bar, run_no,
                   handled_progress, handled_batches, finished_handled,
                   combo_mode, orphans>>
    /\ UNCHANGED <<align_vars, worker_vars, srt_vars>>

\* The user picks the other entry of combo_mode: currentIndexChanged runs
\* try_time_alignment.
ChangeMode ==
    /\ clicks < MaxClicks
    /\ clicks' = clicks + 1
    /\ combo_mode' = 1 - combo_mode
    /\ TryTimeAlignment(source_path, target_path, combo_mode')
    /\ UNCHANGED <<full_results, table_enabled, progress_bar, run_no,
                   handled_progress, handled_batches, finished_handled,
                   source_path, target_path, orphans>>
    /\ UNCHANGED <<align_vars, worker_vars, srt_vars>>

\* The ID cell of a row that has no item in column 0.
NoId == 0

\* A row as QTableWidget.insertRow makes it: no item in any column.
InsertedRow == [id |-> NoId, source |-> "", target |-> "", review |-> NoReview]

\* The row has an item that itemAt can return: an inserted row has none
\* until refresh_row_ids gives it its ID item.
HasItem(row) == row.id # NoId

\* QTableWidget.insertRow(idx) and removeRow(idx), idx counted from 0.
insertRow(rows, idx) ==
    [r \in 1..(Len(rows) + 1) |->
        IF r <= idx THEN rows[r]
        ELSE IF r = idx + 1 THEN InsertedRow
        ELSE rows[r - 1]]

removeRow(rows, idx) ==
    [r \in 1..(Len(rows) - 1) |-> IF r <= idx THEN rows[r] ELSE rows[r + 1]]

\* refresh_row_ids: every row gets the ID text of its position.
refresh_row_ids(rows) == [r \in 1..Len(rows) |-> [rows[r] EXCEPT !.id = r]]

\* (s1 + "\n" + s2).strip(), for texts without outer whitespace.
MergedText(s1, s2) ==
    IF s1 = "" THEN s2
    ELSE IF s2 = "" THEN s1
    ELSE s1 \o "\n" \o s2

\* _merge_two_rows(target_row, source_row), rows counted from 0.
merge_two_rows(rows, target_row, source_row) ==
    LET t == rows[target_row + 1]
        x == rows[source_row + 1]
        written == [rows EXCEPT ![target_row + 1] =
                       [t EXCEPT !.source = MergedText(t.source, x.source),
                                 !.target = MergedText(t.target, x.target)]]
    IN  refresh_row_ids(removeRow(written, source_row))

\* What a row operation of the context menu leaves alone.  The menu
\* opens on an enabled table only.
RowOperationFrame ==
    /\ table_enabled
    /\ clicks < MaxClicks
    /\ clicks' = clicks + 1
    /\ UNCHANGED <<full_results, btn_action_enabled, table_enabled, lbl_status,
                   progress_bar, run_no, handled_progress, handled_batches,
                   finished_handled>>
    /\ UNCHANGED <<source_path, target_path, combo_mode, orphans>>
    /\ UNCHANGED <<align_vars, worker_vars, srt_vars>>

\* "插入行 (Insert)": there is no insert_row method, so the default lambda
\* inserts below the clicked row, or at the end when the click hit no item.
InsertRow ==
    /\ Len(table) < MaxEditRows
    /\ \E idx \in {r \in 1..Len(table) : HasItem(table[r])} \cup {Len(table)} :
          table' = insertRow(table, idx)
    /\ RowOperationFrame

\* "删除行 (Delete)" on a clicked item: delete_row_safe.
DeleteRow ==
    /\ \E r \in {x \in 1..Len(table) : HasItem(table[x])} :
          table' = refresh_row_ids(removeRow(table, r - 1))
    /\ RowOperationFrame

\* "与上一行合并 (Merge Up)" on a clicked item below the first row.
MergeRowUp ==
    /\ \E r \in {x \in 1..Len(table) : HasItem(table[x])} :
          /\ r - 1 > 0
          /\ table' = merge_two_rows(table, r - 2, r - 1)
    /\ RowOperationFrame

\* "与下一行合并 (Merge Down)" on a clicked item above the last row.
MergeRowDown ==
    /\ \E r \in {x \in 1..Len(table) : HasItem(table[x])} :
          /\ r - 1 < Len(table) - 1
          /\ table' = merge_two_rows(table, r - 1, r)
    /\ RowOperationFrame

\* on_lqa_batch for a batch of run number run.
MergeBatch(run, batch) ==
    LET rids == MergedIds(batch, Len(table))
    IN  /\ full_results' =
              [rid \in DOMAIN full_results \cup rids |->
                  IF rid \in rids THEN [run |-> run, start |-> batch.start, id |-> rid]
                  ELSE full_results[rid]]
        /\ table' =
              [r \in 1..Len(table) |->
                  IF (r - 1) \in rids
                  THEN [table[r] EXCEPT !.review =
                           [run |-> run, start |-> batch.start, id |-> r - 1]]
                  ELSE table[r]]

\* What the steps of a replaced worker leave alone.
OrphanFrame ==
    /\ UNCHANGED <<run_no, handled_progress, handled_batches, finished_handled,
                   source_path, target_path, combo_mode, clicks>>
    /\ UNCHANGED <<align_vars, worker_vars, srt_vars>>

\* on_lqa_batch for the oldest batch result a replaced worker had emitted
\* before it was replaced.
OrphanQueuedBatch ==
    /\ \E o \in 1..Len(orphans) :
          /\ orphans[o].queued # <<>>
          /\ MergeBatch(orphans[o].run, Head(orphans[o].queued))
          /\ orphans' = [orphans EXCEPT ![o].queued = Tail(@)]
    /\ UNCHANGED <<btn_action_enabled, table_enabled, lbl_status, progress_bar>>
    /\ OrphanFrame

\* A replaced worker runs its next batch: the call fails, or its n items
\* are emitted and handled by on_lqa_batch.
OrphanBatch ==
    /\ \E o \in 1..Len(orphans) :
          LET w == orphans[o]
              size == Min(batch_size, w.total - w.next)
          IN  /\ w.queued = <<>>
              /\ w.next < w.total
              /\ orphans' = [orphans EXCEPT ![o].next = @ + batch_size]
              /\ \/ UNCHANGED <<table, full_results>>
                 \/ \E n \in 0..(size + MaxExtra) :
                       MergeBatch(w.run, [start |-> w.next, size |-> size,
                                          ids |-> [k \in 1..n |-> w.next + (k - 1)]])
    /\ UNCHANGED <<btn_action_enabled, table_enabled, lbl_status, progress_bar>>
    /\ OrphanFrame

\* on_lqa_finished for the finished signal of a replaced worker.
OrphanFinished ==
    /\ \E o \in 1..Len(orphans) :
          /\ orphans[o].queued = <<>>
          /\ orphans[o].next >= orphans[o].total
          /\ orphans' = [k \in 1..(Len(orphans) - 1) |->
                            IF k < o THEN orphans[k] ELSE orphans[k + 1]]
    /\ progress_bar' = [progress_bar EXCEPT !.visible = FALSE]
    /\ btn_action_enabled' = TRUE
    /\ table_enabled' = TRUE
    /\ lbl_status' = "review complete"
    /\ UNCHANGED <<table, full_results>>
    /\ OrphanFrame

InitSession ==
    /\ AlignIdle
    /\ WorkerIdle
    /\ WindowCreated
    /\ SrtIdle

NextSession ==
    \/ \E file_type \in {"source", "target"} :
       \E path \in SubtitleFiles :
           LoadFile(file_type, path)
    \/ ChangeMode
    \/ InsertRow
    \/ DeleteRow
    \/ MergeRowUp
    \/ MergeRowDown
    \/ RunProcess
    \/ WorkerStart
    \/ WorkerStartFails
    \/ LoopExit
    \/ BatchBegin
    \/ ReviewSend
    \/ ReviewReturns
    \/ ReviewRaises
    \/ HandleResponse
    \/ LoopAdvance
    \/ UpdateProgress
    \/ OnLqaBatch
    \/ OnLqaFinished
    \/ OrphanQueuedBatch
    \/ OrphanBatch
    \/ OrphanFinished

SpecSession == InitSession /\ [][NextSession]_vars

\* The window while the user only loads files and changes the mode.
NextRender ==
    \/ \E file_type \in {"source", "target"} :
       \E path \in SubtitleFiles :
           LoadFile(file_type, path)
    \/ ChangeMode

SpecRender == InitSession /\ [][NextRender]_vars

(***************************************************************************)
(* srt_to_txt                                                              *)
(***************************************************************************)
\* The blocks of an .srt file, each by whether text is left in it once the
\* index line, the time line and the tags are removed.
Contents == UNION {[1..n -> {"text", "no text"}] : n \in 0..MaxBlocks}

\* What convert_file finds at a path: no file, a file it may not open, a
\* file that decodes neither as utf-8-sig nor as gbk, or a file it reads.
FileStates ==
    {[state |-> st, content |-> <<>>] : st \in {"missing", "denied", "undecodable"}}
    \cup {[state |-> "ok", content |-> c] : c \in Contents}

\* parse_srt_block: one line per block that holds text.
parse_srt_block(content) == SelectSeq(content, LAMBDA b : b = "text")

\* The value convert_file returns.
convert_file(f) ==
    IF f.state \in {"missing", "undecodable"} THEN 0
    ELSE Len(parse_srt_block(f.content))

\* main() has parsed its arguments.
SrtStart(fs, p) ==
    /\ files = fs
    /\ pair = p
    /\ counts = <<>>
    /\ report = "none"
    /\ srt_pc = "convert"

\* One iteration of "for file_path in args.files".
ConvertFile ==
    /\ srt_pc = "convert"
    /\ Len(counts) < Len(files)
    /\ files[Len(counts) + 1].state # "denied"
    /\ counts' = Append(counts, convert_file(files[Len(counts) + 1]))
    /\ UNCHANGED <<files, pair, report, srt_pc>>
    /\ UNCHANGED <<align_vars, worker_vars, ui_vars, session_vars>>

\* open() raises an error that convert_file does not catch: main() ends
\* with the traceback.
ConvertFileRaises ==
    /\ srt_pc = "convert"
    /\ Len(counts) < Len(files)
    /\ files[Len(counts) + 1].state = "denied"
    /\ srt_pc' = "exit"
    /\ UNCHANGED <<files, pair, counts, report>>
    /\ UNCHANGED <<align_vars, worker_vars, ui_vars, session_vars>>

\* The pair check after the loop.
PairCheck ==
    /\ srt_pc = "convert"
    /\ Len(counts) = Len(files)
    /\ report' = IF pair /\ Len(counts) = 2
                 THEN IF counts[1] = counts[2] THEN "identical" ELSE "mismatch"
                 ELSE report
    /\ srt_pc' = "exit"
    /\ UNCHANGED <<files, pair, counts>>
    /\ UNCHANGED <<align_vars, worker_vars, ui_vars, session_vars>>

InitSrt ==
    /\ AlignIdle
    /\ WorkerIdle
    /\ WindowCreated
    /\ \E n \in 1..MaxFiles :
       \E fs \in [1..n -> FileStates] :
       \E p \in BOOLEAN :
           SrtStart(fs, p)

NextSrt == ConvertFile \/ ConvertFileRaises \/ PairCheck

SpecSrt == InitSrt /\ [][NextSrt]_vars

(***************************************************************************)
(* Properties of align_subtitles (checked under SpecAlign)                 *)
(***************************************************************************)
Range(f) == {f[k] : k \in DOMAIN f}

\* The reference rule of the specification: the overlap clamped at 0, the
\* duration floored at 1, and overlap / duration > 0.5 over the rationals.
RefOverlap(m, p) == Max(0, Min(m.end, p.end) - Max(m.start, p.start))
RefDuration(p) == Max(1, p.end - p.start)
RefCandidate(m, p) ==
    \/ RefOverlap(m, p) >= 200
    \/ 2 * RefOverlap(m, p) > RefDuration(p)

\* Pool positions consumed by the masters before the k-th.
ConsumedBefore(k) == UNION {Range(candidates[j]) : j \in 1..(k - 1)}

\* C1: align_subtitles returns exactly one pair per master segment, in
\* master order, and the first component of pair k is the text of master
\* segment k (during the loop: one pair per master segment handled so far).
C1_OnePairPerMaster ==
    /\ Len(aligned) = s_pos
    /\ align_pc = "done" => Len(aligned) = Len(source_data)
    /\ \A k \in 1..Len(aligned) : aligned[k][1] = source_data[k].text

\* A finished call on an unsorted master track whose first segment matched
\* nothing and whose second segment matched something.
C1_Witness ==
    /\ align_pc = "done"
    /\ Len(source_data) = 2
    /\ source_data[1].start > source_data[2].start
    /\ aligned = <<(<<"A", "">>), (<<"B", "x">>)>>

\* C2: every pool position is among the candidates of at most one master
\* segment: once matched to master a it is never matched to a master b > a.
C2_NoDoubleConsumption ==
    \A a, b \in 1..Len(candidates) :
        a < b => Range(candidates[a]) \cap Range(candidates[b]) = {}

\* A finished call in which a pool segment qualifies for both master
\* segments and was given to the first only.
C2_Witness ==
    /\ align_pc = "done"
    /\ Len(source_data) = 2
    /\ \E p \in 1..Len(target_data) :
        /\ is_valid_match(source_data[1], target_data[p])
        /\ is_valid_match(source_data[2], target_data[p])
        /\ p \in Range(candidates[1])
        /\ p \notin Range(candidates[2])

FirstMasterIsWide ==
    /\ s_pos >= 1
    /\ source_data[1].start = 0
    /\ source_data[1].end = 1000

\* C4 as stated: a pool segment overlapping the master 0..1000 by 100 ms
\* does not match on rule 1 and matches on rule 2 whenever its duration is
\* <= 200 ms, a duration of exactly 200 ms included.
C4_Original ==
    FirstMasterIsWide =>
        \A p \in 1..Len(target_data) :
            RefOverlap(source_data[1], target_data[p]) = 100 =>
                /\ ~OverlapRule(source_data[1], target_data[p])
                /\ RefDuration(target_data[p]) <= 200 =>
                      /\ RatioRule(source_data[1], target_data[p])
                      /\ p \in Range(candidates[1])

\* C4 as amended: a pool segment overlapping the master 0..1000 by 100 ms
\* does not match on rule 1; it matches on rule 2 whenever its duration is
\* < 200 ms, and at a duration of exactly 200 ms (ratio exactly 0.5) it
\* does not match.
C4_Amended ==
    FirstMasterIsWide =>
        \A p \in 1..Len(target_data) :
            RefOverlap(source_data[1], target_data[p]) = 100 =>
                /\ ~OverlapRule(source_data[1], target_data[p])
                /\ RefDuration(target_data[p]) < 200 =>
                      /\ RatioRule(source_data[1], target_data[p])
                      /\ p \in Range(candidates[1])
                /\ RefDuration(target_data[p]) = 200 =>
                      /\ ~RatioRule(source_data[1], target_data[p])
                      /\ p \notin Range(candidates[1])

\* Master 0..1000 against the pool [{900,1050}] (overlap 100, duration 150,
\* matched) once the call has returned.
C4_Witness ==
    /\ align_pc = "done"
    /\ FirstMasterIsWide
    /\ Len(target_data) = 1
    /\ target_data[1].start = 900
    /\ target_data[1].end = 1050
    /\ candidates = <<(<<1>>)>>

\* C5: the matched text of a master segment is the newline-joined texts of
\* its matched pool segments, taken in strictly ascending pool position.
C5_JoinedInPoolOrder ==
    \A k \in 1..Len(candidates) :
        /\ \A a, b \in 1..Len(candidates[k]) :
              a < b => candidates[k][a] < candidates[k][b]
        /\ aligned[k][2] =
              JoinNewline([j \in 1..Len(candidates[k]) |->
                              target_data[candidates[k][j]].text])

\* A finished call whose second master segment matched two pool segments.
C5_Witness ==
    /\ align_pc = "done"
    /\ Len(source_data) = 2
    /\ candidates[1] = <<>>
    /\ candidates[2] = <<1, 2>>
    /\ aligned[2][2] = "x\ny"

\* C6: with an empty pool every returned pair has matched text "" and there
\* is still one pair per master segment; with an empty master the result
\* is the empty sequence whatever the pool holds.
C6_EmptyTracks ==
    align_pc = "done" =>
        /\ target_data = <<>> =>
              /\ Len(aligned) = Len(source_data)
              /\ \A k \in 1..Len(aligned) : aligned[k][2] = ""
        /\ source_data = <<>> => aligned = <<>>

\* A finished call with an empty master and a pool of two segments.
C6_Witness ==
    /\ align_pc = "done"
    /\ source_data = <<>>
    /\ Len(target_data) = 2
    /\ aligned = <<>>

(***************************************************************************)
(* Properties of LQAWorker.run (checked under SpecWorker)                  *)
(***************************************************************************)
\* C7: a run started with source_lines and target_lines of different
\* lengths is rejected before any batch runs: it makes no review call and
\* emits no progress and no batch result.
C7_MismatchRejected ==
    Len(source_lines) # Len(target_lines) =>
        /\ calls = <<>>
        /\ progress = <<>>
        /\ emitted = <<>>

\* C8: every item emitted for the batch starting at index start carries
\* id = start + its position in the service's response.
C8_IdsAreStartPlusPosition ==
    \A b \in 1..Len(emitted) :
        /\ \E c \in 1..Len(calls) : calls[c].start_index = emitted[b].start
        /\ \A k \in 1..Len(emitted[b].ids) :
              emitted[b].ids[k] = emitted[b].start + (k - 1)

\* The batch starting at 10 has just been emitted from a response of at
\* least two items which all carried the id 0, or none.
C8_Witness ==
    /\ w_pc = "next"
    /\ i = 10
    /\ response.kind \in {"list", "wrapped"}
    /\ Len(response.items) >= 2
    /\ \A k \in 1..Len(response.items) :
          response.items[k].id = 0 /\ response.items[k].isdict
    /\ emitted # <<>>
    /\ emitted[Len(emitted)].start = 10
    /\ Len(emitted[Len(emitted)].ids) = Len(response.items)
    /\ emitted[Len(emitted)].ids[2] = 11

\* C9: in a run over line lists of equal length, every id emitted for the
\* batch starting at start lies in [start, start + batch length): items
\* beyond the batch are discarded.
C9_ExtraItemsDiscarded ==
    Len(source_lines) = Len(target_lines) =>
        \A b \in 1..Len(emitted) :
            \A k \in 1..Len(emitted[b].ids) :
                /\ emitted[b].start <= emitted[b].ids[k]
                /\ emitted[b].ids[k] < emitted[b].start + emitted[b].size

\* C10: over one run on line lists of equal length the row ids of all
\* emitted results are pairwise distinct.
C10_RowIdsDistinct ==
    Len(source_lines) = Len(target_lines) =>
        \A b1, b2 \in 1..Len(emitted) :
            \A k1 \in 1..Len(emitted[b1].ids) :
                \A k2 \in 1..Len(emitted[b2].ids) :
                    emitted[b1].ids[k1] = emitted[b2].ids[k2] =>
                        (b1 = b2 /\ k1 = k2)

\* The start indices range(0, total, batch_size) runs through.
BatchStarts == {s \in 0..total : s < total /\ s % batch_size = 0}

\* The batch starting at s has a logged failure / an emitted result.
HasFailed(s) == \E f \in 1..Len(logged) : logged[f].start = s
HasEmitted(s) == \E b \in 1..Len(emitted) : emitted[b].start = s

\* The run has returned from the loop without cancellation or fatal error.
RanToEnd == w_pc = "done" /\ ~interruption /\ errors = <<>>

\* C11: a failed batch (review call raised, or response unparseable) is not
\* fatal: no error_occurred is emitted for it, every batch of the run is
\* still dispatched and ends either failed or emitted, and no emitted
\* result carries a row id of a failed batch.
C11_FailedBatchIsNotFatal ==
    Len(source_lines) = Len(target_lines) =>
        /\ logged # <<>> => errors = <<>>
        /\ RanToEnd =>
              /\ \A s \in BatchStarts :
                    \E c \in 1..Len(calls) : calls[c].start_index = s
              /\ \A c \in 1..Len(calls) :
                    HasFailed(calls[c].start_index)
                        # HasEmitted(calls[c].start_index)
        /\ \A f \in 1..Len(logged) :
              \A b \in 1..Len(emitted) :
                  \A k \in 1..Len(emitted[b].ids) :
                      ~(/\ logged[f].start <= emitted[b].ids[k]
                        /\ emitted[b].ids[k] < logged[f].start + batch_size)

\* The response held by the worker is one whose items are emitted.
Emittable(r) ==
    /\ r.kind \in {"list", "wrapped", "other"}
    /\ \A k \in 1..Len(ParsedItems(r)) : ParsedItems(r)[k].isdict

\* C12: cancellation is observed only at the head of a batch.  A step taken
\* at the loop head with the cancel signal set ends the run and makes no
\* review call, progress or result; a finished run emits nothing more;
\* results once emitted stay emitted; a batch past the cancellation check
\* is carried through whatever the cancel signal, and its result is
\* emitted.
C12_CancelAtBatchBoundary ==
    [][/\ (w_pc = "loop" /\ interruption) =>
              (w_pc' = "done" /\ UNCHANGED <<calls, progress, emitted>>)
       /\ w_pc = "done" => UNCHANGED <<calls, progress, emitted>>
       /\ Len(emitted') >= Len(emitted)
       /\ SubSeq(emitted', 1, Len(emitted)) = emitted
       /\ w_pc \in {"send", "wait", "parse"} =>
              w_pc' \in {"send", "wait", "parse", "next"}
       /\ (w_pc = "parse" /\ w_pc' # "parse" /\ Emittable(response)) =>
              /\ Len(emitted') = Len(emitted) + 1
              /\ emitted'[Len(emitted')].start = i]_vars

\* Cancellation was observed at the head of the second batch of a run over
\* 25 rows: the first batch's ten results are emitted, one review call and
\* one progress notification were made.
C12_Witness ==
    /\ w_pc = "done"
    /\ interruption
    /\ total = 25
    /\ i = batch_size
    /\ Len(calls) = 1
    /\ Len(progress) = 1
    /\ Len(emitted) = 1
    /\ emitted[1].start = 0
    /\ Len(emitted[1].ids) = batch_size

\* ceil(n / batch_size).
CeilBatches(n) == (n + batch_size - 1) \div batch_size

\* The rows of lines with indices in [a, b).
Rows(lines, a, b) == [k \in 1..(b - a) |-> lines[a + k]]

\* C13: in a run over N rows the c-th review call is for the start index
\* (c - 1) * batch_size and carries exactly the source rows and the target
\* rows of [start, min(start + batch_size, N)), a non-empty range; a run
\* that is neither cancelled nor hit by a fatal error makes
\* ceil(N / batch_size) calls, so that the batches partition [0, N).
C13_BatchesPartitionRows ==
    Len(source_lines) = Len(target_lines) =>
        /\ \A c \in 1..Len(calls) :
              LET start == (c - 1) * batch_size
                  end == Min(start + batch_size, total)
              IN  /\ calls[c].start_index = start
                  /\ start < end
                  /\ calls[c].source = Rows(source_lines, start, end)
                  /\ calls[c].target = Rows(target_lines, start, end)
        /\ RanToEnd => Len(calls) = CeilBatches(total)

\* A run over 25 rows has ended after the calls for 0, 10 and 20, of 10, 10
\* and 5 rows.
C13_Witness ==
    /\ RanToEnd
    /\ total = 25
    /\ Len(target_lines) = 25
    /\ Len(calls) = 3
    /\ calls[1].start_index = 0 /\ Len(calls[1].source) = 10
    /\ calls[2].start_index = 10 /\ Len(calls[2].target) = 10
    /\ calls[3].start_index = 20 /\ Len(calls[3].source) = 5
    /\ Len(calls[3].target) = 5

\* The number of review calls made and not yet returned, raised or handled.
InFlight == Len(calls) - (Len(emitted) + Len(logged))

\* C14: at most one review call is in flight, and it is the call of the
\* current batch; when the loop takes the next index every earlier call has
\* ended, emitted or failed; the start indices of the emitted batch
\* results are strictly ascending.
C14_OneCallInFlight ==
    /\ InFlight \in {0, 1}
    /\ InFlight = 1 <=> w_pc \in {"wait", "parse"}
    /\ InFlight = 1 => calls[Len(calls)].start_index = i
    /\ \A c \in 1..Len(calls) :
          calls[c].start_index < i =>
              HasFailed(calls[c].start_index) # HasEmitted(calls[c].start_index)
    /\ \A b1, b2 \in 1..Len(emitted) :
          b1 < b2 => emitted[b1].start < emitted[b2].start

\* The third call of a run is in flight after the first batch's result was
\* emitted and the second batch's call failed.
C14_Witness ==
    /\ w_pc = "wait"
    /\ Len(calls) = 3
    /\ Len(emitted) = 1
    /\ Len(logged) = 1
    /\ HasEmitted(0)
    /\ HasFailed(batch_size)

\* C16: a response that is an array of objects, bare or held under
\* "reviews", is accepted: all its items are emitted for the batch.  A
\* response of any other JSON shape is an empty result: an empty batch is
\* emitted for it, no failure is logged and no row id is delivered.  In
\* both cases no error_occurred is emitted and the loop's next step takes
\* the next start index.
C16_ResponseShapes ==
    /\ [](w_pc = "next" /\ response.kind \in {"list", "wrapped", "other"}
            /\ Emittable(response) =>
              /\ emitted # <<>>
              /\ emitted[Len(emitted)].start = i
              /\ Len(emitted[Len(emitted)].ids) =
                    IF response.kind = "other" THEN 0 ELSE Len(response.items)
              /\ ~HasFailed(i)
              /\ errors = <<>>)
    /\ [][w_pc = "next" /\ w_pc' # "next" =>
              w_pc' = "loop" /\ i' = i + batch_size]_vars

\* In a run over 25 rows the response for the batch starting at 10 was a
\* JSON value of another shape: an empty batch was emitted after the ten
\* results of the first batch.
C16_Witness ==
    /\ w_pc = "next"
    /\ total = 25
    /\ i = batch_size
    /\ response.kind = "other"
    /\ Len(emitted) = 2
    /\ Len(emitted[1].ids) = batch_size
    /\ emitted[2].start = batch_size
    /\ emitted[2].ids = <<>>

\* C17: every review call is preceded by one progress notification carrying
\* the batch's start index and the total number of rows, emitted at the
\* loop head with the cancel signal not set; the notified start indices are
\* strictly increasing and never exceed the total.
C17_ProgressBeforeCall ==
    /\ [](/\ Len(progress) - Len(calls) \in {0, 1}
          /\ Len(progress) = Len(calls) + 1 <=> w_pc = "send"
          /\ \A c \in 1..Len(calls) :
                progress[c] = <<calls[c].start_index, total>>
          /\ \A p \in 1..Len(progress) :
                /\ progress[p][1] <= progress[p][2]
                /\ progress[p][2] = total
          /\ \A p, q \in 1..Len(progress) :
                p < q => progress[p][1] < progress[q][1])
    /\ [][progress' # progress =>
              /\ w_pc = "loop" /\ ~interruption
              /\ Len(progress') = Len(progress) + 1
              /\ calls' = calls]_vars

\* In a run over 25 rows the third progress notification (20 of 25) has
\* been emitted and the third review call is not yet made.
C17_Witness ==
    /\ w_pc = "send"
    /\ total = 25
    /\ Len(calls) = 2
    /\ Len(progress) = 3
    /\ progress[3] = <<20, 25>>

\* C18: every run ends, and by then it has made at most ceil(N / batch_size)
\* review calls, no two of them for the same start index.
C18_RunTerminates ==
    /\ <>(w_pc = "done")
    /\ [](/\ Len(calls) <= CeilBatches(total)
          /\ \A c, d \in 1..Len(calls) :
                calls[c].start_index = calls[d].start_index => c = d)

\* A run over 25 rows has ended after three review calls, the second of
\* which failed.
C18_Witness ==
    /\ w_pc = "done"
    /\ total = 25
    /\ Len(calls) = CeilBatches(25)
    /\ HasFailed(batch_size)
    /\ Len(logged) = 1

\* C15: a fatal error, raised outside the per-batch try, ends the run: one
\* error_occurred is emitted, no batch is attempted, and once the control
\* path has handled the end of the run it shows that the run failed.
C15_FatalErrorSurfaced ==
    errors # <<>> =>
        /\ Len(errors) = 1
        /\ w_pc = "done"
        /\ calls = <<>>
        /\ finished_handled => lbl_status = "error"

\* C19: once the control path has handled the end of a run, every table
\* row of a batch that failed in that run shows no review, whatever runs
\* came before on the same table.  (Stated for runs in which no response
\* held more items than its batch has rows.)
C19_FailedRowsShowEmpty ==
    (/\ finished_handled
     /\ \A b \in 1..Len(emitted) : Len(emitted[b].ids) <= emitted[b].size) =>
        \A f \in 1..Len(logged) :
            \A r \in 1..Len(table) :
                (logged[f].start <= r - 1 /\ r - 1 < logged[f].start + batch_size) =>
                    table[r].review = NoReview

\* The table or full_results is written by the step.
StoreWritten == table' # table \/ full_results' # full_results

C23_CompletedOnlyWithoutFatalError ==
    (finished_handled /\ lbl_status = "review complete") => errors = <<>>

\* The masters handled so far for which pool position p qualifies.
QualifyingMasters(p) ==
    {k \in 1..s_pos : is_valid_match(source_data[k], target_data[p])}

\* C24: when the call has handled every master, a pool segment is matched
\* to master k exactly when k is the lowest-index master for which it
\* qualifies, wherever the segment sits in the pool and however much a
\* later master overlaps it.
C24_LowestQualifyingMaster ==
    align_pc = "done" =>
    \A p \in 1..Len(target_data) :
        LET qualifying == QualifyingMasters(p)
        IN  \A k \in 1..s_pos :
                p \in Range(candidates[k]) <=>
                    (k \in qualifying /\ \A q \in qualifying : k <= q)

\* A finished call in which the second pool segment qualifies for both
\* masters, overlaps the second master more than the first, and was matched
\* to the first; the first pool segment does not qualify for the first
\* master.
C24_Witness ==
    /\ align_pc = "done"
    /\ Len(source_data) = 2
    /\ Len(target_data) = 2
    /\ ~is_valid_match(source_data[1], target_data[1])
    /\ QualifyingMasters(2) = {1, 2}
    /\ overlap_duration(source_data[2], target_data[2])
          > overlap_duration(source_data[1], target_data[2])
    /\ candidates[1] = <<2>>
    /\ 2 \notin Range(candidates[2])

C29_IdenticalOnlyWhenBothRead ==
    report = "identical" =>
        /\ pair /\ Len(files) = 2
        /\ \A k \in 1..2 : files[k].state = "ok"
        /\ Len(parse_srt_block(files[1].content)) = Len(parse_srt_block(files[2].content))

\* C21: while a run is live (started by run_process, its completion not yet
\* handled) the table still has the rows that were sent for review: the
\* same row count and, row by row, the same source and target text.
C21_TableLockedDuringRun ==
    WorkerLive =>
        /\ Len(table) = Len(source_lines)
        /\ \A r \in 1..Len(table) :
              /\ table[r].source = source_lines[r]
              /\ table[r].target = target_lines[r]

\* The number of LQAWorker threads inside run().
RunningWorkers ==
    Cardinality({o \in 1..Len(orphans) : orphans[o].next < orphans[o].total})
        + (IF w_pc \in {"idle", "done"} THEN 0 ELSE 1)

\* C22: at most one LQAWorker is running at any time.
C22_OneWorkerAtATime == RunningWorkers <= 1

\* The texts of the segments of track whose positions, from k on, are in S.
RECURSIVE PickTexts(_, _, _)
PickTexts(track, S, k) ==
    IF k > Len(track) THEN <<>>
    ELSE (IF k \in S THEN <<track[k].text>> ELSE <<>>) \o PickTexts(track, S, k + 1)

\* The texts a column can hold when it is re-segmented from track: the
\* texts of some of its segments, in track order, joined by newlines.
JoinsOf(track) == {JoinNewline(PickTexts(track, S, 1)) : S \in SUBSET (1..Len(track))}

\* C25: a table that try_time_alignment has just built has one row per
\* segment of the master track; with the source as master column 1 holds
\* the source segments' texts and column 2 texts re-segmented from the
\* target track, with the target as master column 2 holds the target
\* segments' texts and column 1 texts re-segmented from the source track.
C25_RowsFollowMaster ==
    lbl_status = "aligned" =>
        LET s_data == parse_subtitle_file(source_path)
            t_data == parse_subtitle_file(target_path)
        IN  IF combo_mode = 0
            THEN /\ Len(table) = Len(s_data)
                 /\ \A r \in 1..Len(table) :
                       /\ table[r].source = s_data[r].text
                       /\ table[r].target \in JoinsOf(t_data)
            ELSE /\ Len(table) = Len(t_data)
                 /\ \A r \in 1..Len(table) :
                       /\ table[r].target = t_data[r].text
                       /\ table[r].source \in JoinsOf(s_data)

\* With the two-segment file as source and the one-segment file as target,
\* the table built with the target as master has one row: both source texts
\* in column 1 and the target text in column 2.
C25_Witness ==
    /\ lbl_status = "aligned"
    /\ combo_mode = 1
    /\ source_path = "a.srt"
    /\ target_path = "b.srt"
    /\ Len(table) = 1
    /\ table[1].source = "a1\na2"
    /\ table[1].target = "b1"

\* C27: the ID cell of every row shows the row's position, counted from 1.
C27_RowIdsFollowPosition ==
    \A r \in 1..Len(table) : table[r].id = r

\* C28: the entry of full_results under a row's index, when it comes from
\* the worker the window holds, was produced for the source and target
\* text now in that row.
C28_DetailMatchesRow ==
    \A rid \in DOMAIN full_results :
        (rid < Len(table) /\ full_results[rid].run = run_no) =>
            /\ rid < Len(source_lines)
            /\ table[rid + 1].source = source_lines[rid + 1]
            /\ table[rid + 1].target = target_lines[rid + 1]

====
